---------------------------- MODULE Spec2Model ----------------------------
(***************************************************************************)
(* The browser verification scripts of FATUM-Mark2:                        *)
(*   verification/verify_ui.py      verify_ui                              *)
(*   fatum-mark2/verify_frontend.py verify_frontend                        *)
(*   verification/verify_editor.py  verify_visual_editor                   *)
(*   verification/verify.py         verify_frontend (placeholder page)     *)
(*                                                                         *)
(* Each script is a straight-line sequence of statements inside            *)
(* `with sync_playwright() as p:`.  A statement is a call into the         *)
(* synchronous Playwright API (dispatched, then it returns or raises), or  *)
(* a local statement (print, time.sleep, writing a file).  Two scripts     *)
(* run side by side, each as its own process.                              *)
(***************************************************************************)
EXTENDS Integers, Sequences, FiniteSets

VARIABLES
    script,      \* run -> the function the run executes
    pc,          \* run -> index of the statement the run is at
    inflight,    \* run -> indices of the calls dispatched and not yet returned
    state,       \* run -> "Pending" | "Running" | "Completed" | "Aborted"
    exc,         \* run -> an exception is propagating out of the function
    escaped,     \* run -> the function ended by an uncaught exception
    playwright,  \* run -> "none" | "started" | "stopped"  (the with block)
    browser,     \* run -> "none" | "open" | "closed" | "killed"
    page,        \* run -> browser.new_page() has returned a page
    launchCount, \* run -> number of calls of p.chromium.launch
    closeCount,  \* run -> number of calls of browser.close
    dispatched,  \* run -> statement indices in the order they were dispatched
    outcomes,    \* run -> [step_index, status] of every call that has ended
    artifacts,   \* run -> paths of the screenshots written, in order
    log,         \* run -> lines printed, in order
    files        \* path -> the run that last wrote the file, or "none"

vars == <<script, pc, inflight, state, exc, escaped, playwright, browser, page,
          launchCount, closeCount, dispatched, outcomes, artifacts, log, files>>

Runs == {"A", "B"}

-----------------------------------------------------------------------------
(* Statements.                                                             *)

St(l, o, a) == [line |-> l, op |-> o, arg |-> a]

\* verification/verify_ui.py
verify_ui == <<
    St(5,  "enter",      "sync_playwright"),
    St(6,  "launch",     "chromium"),
    St(7,  "new_page",   "page"),
    St(9,  "navigate",   "http://127.0.0.1:3000"),
    St(12, "print",      "Checking Navigation..."),
    St(13, "wait",       ".nav-group"),
    St(14, "screenshot", "verification/1_nav_restructure.png"),
    St(17, "print",      "Checking Tooltips..."),
    St(20, "hover",      "button[data-tooltip='View Past Analysis Records']"),
    St(24, "wait",       "#tooltip-box"),
    St(25, "screenshot", "verification/2_tooltip.png"),
    St(28, "print",      "Checking Sidebar..."),
    St(31, "click",      "summary QUANTUM CONFIGURATION"),
    St(32, "sleep",      "0.5"),
    St(33, "screenshot", "verification/3_sidebar_details.png"),
    St(35, "print",      "Verification Complete."),
    St(38, "print",      "Error"),
    St(40, "close",      "browser") >>

\* fatum-mark2/verify_frontend.py
verify_frontend == <<
    St(4,  "enter",      "sync_playwright"),
    St(5,  "launch",     "chromium"),
    St(6,  "new_page",   "page"),
    St(9,  "navigate",   "http://localhost:3000"),
    St(12, "print",      "Checking title..."),
    St(13, "assert",     "FATUM MARK 2 in title"),
    St(16, "print",      "Checking tabs..."),
    St(17, "click",      "showTab('profiles')"),
    St(18, "wait",       "#tab-profiles"),
    St(20, "click",      "showTab('fengshui')"),
    St(21, "wait",       "#tab-fengshui"),
    St(24, "print",      "Running Feng Shui simulation..."),
    St(26, "fill",       "#fs-year=2024"),
    St(27, "fill",       "#fs-facing=180"),
    St(28, "fill",       "#fs-intention=Test Wealth"),
    St(29, "check",      "#fs-quantum"),
    St(32, "click",      "runFengShui()"),
    St(35, "wait",       "fs-output includes QUANTUM FENG SHUI ANALYSIS"),
    St(38, "screenshot", "/home/jules/verification/feng_shui_dashboard.png"),
    St(39, "print",      "Captured Feng Shui Dashboard."),
    St(42, "print",      "Running Divination..."),
    St(43, "click",      "showTab('divination')"),
    St(44, "wait",       "#tab-divination"),
    St(45, "click",      "castHexagram()"),
    St(48, "wait",       "#divination-text h3"),
    St(51, "screenshot", "/home/jules/verification/divination_result.png"),
    St(52, "print",      "Captured Divination Result."),
    St(54, "close",      "browser") >>

\* verification/verify_editor.py
verify_visual_editor == <<
    St(4,  "enter",      "sync_playwright"),
    St(5,  "launch",     "chromium"),
    St(6,  "new_page",   "page"),
    St(9,  "navigate",   "http://localhost:3000"),
    St(12, "click",      "input[value='visual']"),
    St(16, "assert",     "#dVisualInput is_visible"),
    St(19, "click",      "button:has-text('+ Add Node')"),
    St(23, "assert",     ".node-card count >= 2"),
    St(26, "screenshot", "verification/visual_editor.png"),
    St(28, "close",      "browser") >>

\* verification/verify.py (the function is named verify_frontend there too)
verify_placeholder == <<
    St(5,  "enter",      "sync_playwright"),
    St(6,  "launch",     "chromium"),
    St(18, "new_page",   "page"),
    St(23, "write_file", "verification/dummy.html"),
    St(26, "navigate",   "file:///app/verification/dummy.html"),
    St(27, "screenshot", "verification/verification.png"),
    St(28, "close",      "browser") >>

Scripts == {"verify_ui", "verify_frontend", "verify_visual_editor", "verify"}

Body(s) ==
    CASE s = "verify_ui"            -> verify_ui
      [] s = "verify_frontend"      -> verify_frontend
      [] s = "verify_visual_editor" -> verify_visual_editor
      [] s = "verify"               -> verify_placeholder

\* The files the scripts write: their screenshots and verify.py's dummy page.
\* The paths are relative to one working directory or absolute, so two runs
\* of the same function write the same files.
Paths == UNION {{Body(s)[i].arg : i \in {j \in 1..Len(Body(s)) :
                    Body(s)[j].op \in {"screenshot", "write_file"}}} : s \in Scripts}

\* The position after the last statement (leaving the with block) and the
\* position of a function that has ended.
ExitPc(s) == Len(Body(s)) + 1
DonePc(s) == Len(Body(s)) + 2

\* try / except Exception / finally of verify_ui (lines 8, 37, 39); the other
\* functions have none.  Indices into the statement sequence; 0 = no try.
TryFirst(s) == IF s = "verify_ui" THEN 4 ELSE 0
TryLast(s)  == IF s = "verify_ui" THEN 16 ELSE 0
Handler(s)  == IF s = "verify_ui" THEN 17 ELSE 0
Finally(s)  == IF s = "verify_ui" THEN 18 ELSE 0

InTry(s, i) == TryFirst(s) # 0 /\ i >= TryFirst(s) /\ i <= TryLast(s)

CallOps  == {"launch", "new_page", "navigate", "click", "fill", "check",
             "hover", "wait", "assert", "screenshot", "close"}
\* the statements of a scenario: what runs once the page exists, close excluded
StepOps  == {"navigate", "click", "fill", "check", "hover", "wait", "assert",
             "screenshot", "write_file"}
Failure  == {"not_found", "timeout", "error"}

\* The ways a statement can raise.  Any call can be rejected by the browser
\* ("error"); an action on a locator can find no element ("not_found"); a wait
\* or a navigation can run out of time ("timeout").
FailuresOf(op) ==
    CASE op \in {"click", "fill", "check", "hover"} -> {"not_found", "error"}
      [] op \in {"wait", "navigate"}                -> {"timeout", "error"}
      [] op \in {"launch", "new_page", "assert", "screenshot", "close",
                 "write_file"}                      -> {"error"}
      [] OTHER                                      -> {}

\* No statement has a handler of its own: an exception always leaves the
\* statement sequence, so every statement's failure policy is "abort".
OnFailure(s, i) == "abort"

\* (mutant) the function returns right after its first screenshot.
NextStmt_ReturnAfterCapture(s, i) ==
    IF Body(s)[i].op = "screenshot" THEN ExitPc(s)
    ELSE IF i = TryLast(s) THEN Finally(s) ELSE i + 1

\* The statement executed after statement i ends normally: the next one, and
\* from the end of the try body to the finally clause, past the handler.
NextStmt(s, i) == IF i = TryLast(s) THEN Finally(s) ELSE i + 1

\* (mutant) every statement's exception is swallowed and the next statement runs.
RaiseTarget_Swallow(s, i) == NextStmt(s, i)

\* (mutant) a failed screenshot is swallowed; any other failure propagates.
RaiseTarget_CaptureContinues(s, i) ==
    IF Body(s)[i].op = "screenshot" THEN NextStmt(s, i)
    ELSE IF InTry(s, i) THEN Handler(s) ELSE ExitPc(s)

\* (mutant) a failed launch is attempted again.
RaiseTarget_RetryLaunch(s, i) ==
    IF Body(s)[i].op = "launch" THEN i
    ELSE IF InTry(s, i) THEN Handler(s) ELSE ExitPc(s)

\* (mutant) a wait that ran out of time is awaited again.
RaiseTarget_RetryWait(s, i) ==
    IF Body(s)[i].op = "wait" THEN i
    ELSE IF InTry(s, i) THEN Handler(s) ELSE ExitPc(s)

\* (mutant) a failed assert does not stop the function (asserts stripped).
RaiseTarget_AssertIgnored(s, i) ==
    IF Body(s)[i].op = "assert" THEN NextStmt(s, i)
    ELSE IF InTry(s, i) THEN Handler(s) ELSE ExitPc(s)

\* (mutant) verify_ui without its except clause: the exception leaves the body.
RaiseTarget_NoExcept(s, i) == ExitPc(s)

\* Where control goes when statement i raises: to the except clause when i is
\* inside the try body, out of the with block otherwise.
RaiseTarget(s, i) == IF InTry(s, i) THEN Handler(s) ELSE ExitPc(s)

\* (mutant) the call is started and the caller goes on without awaiting it.
PcAfterDispatch_NoAwait(s, i) == NextStmt(s, i)

\* A synchronous call blocks: the caller stays at the call until it returns.
PcAfterDispatch(s, i) == i

\* (mutant) closing ends every browser on the machine, not only one's own.
Closes_Every(r) == Runs

\* browser.close() ends the browser this run launched: the runs whose browser
\* a close by run r ends.
Closes(r) == {r}

Last(q) == q[Len(q)]

Stmt(r) == Body(script[r])[pc[r]]

AtStmt(r) == pc[r] >= 1 /\ pc[r] <= Len(Body(script[r]))

-----------------------------------------------------------------------------
Init ==
    /\ script \in [Runs -> Scripts]
    /\ pc = [r \in Runs |-> 1]
    /\ inflight = [r \in Runs |-> {}]
    /\ state = [r \in Runs |-> "Pending"]
    /\ exc = [r \in Runs |-> FALSE]
    /\ escaped = [r \in Runs |-> FALSE]
    /\ playwright = [r \in Runs |-> "none"]
    /\ browser = [r \in Runs |-> "none"]
    /\ page = [r \in Runs |-> FALSE]
    /\ launchCount = [r \in Runs |-> 0]
    /\ closeCount = [r \in Runs |-> 0]
    /\ dispatched = [r \in Runs |-> << >>]
    /\ outcomes = [r \in Runs |-> << >>]
    /\ artifacts = [r \in Runs |-> << >>]
    /\ log = [r \in Runs |-> << >>]
    /\ files = [f \in Paths |-> "none"]

\* with sync_playwright() as p:
Enter(r) ==
    /\ AtStmt(r) /\ Stmt(r).op = "enter"
    /\ playwright' = [playwright EXCEPT ![r] = "started"]
    /\ pc' = [pc EXCEPT ![r] = NextStmt(script[r], pc[r])]
    /\ UNCHANGED <<script, inflight, state, exc, escaped, browser, page,
                   launchCount, closeCount, dispatched, outcomes, artifacts, log, files>>

\* The run calls the Playwright method of the statement it is at.
Dispatch(r) ==
    /\ AtStmt(r) /\ Stmt(r).op \in CallOps
    /\ pc[r] \notin inflight[r]
    /\ inflight' = [inflight EXCEPT ![r] = @ \cup {pc[r]}]
    /\ dispatched' = [dispatched EXCEPT ![r] = Append(@, pc[r])]
    /\ launchCount' = [launchCount EXCEPT
                         ![r] = IF Stmt(r).op = "launch" THEN @ + 1 ELSE @]
    /\ closeCount' = [closeCount EXCEPT
                         ![r] = IF Stmt(r).op = "close" THEN @ + 1 ELSE @]
    /\ pc' = [pc EXCEPT ![r] = PcAfterDispatch(script[r], pc[r])]
    /\ UNCHANGED <<script, state, exc, escaped, playwright, browser, page,
                   outcomes, artifacts, log, files>>

\* A call in flight returns normally.
ReturnOk(r) ==
    \E i \in inflight[r] :
        LET st == Body(script[r])[i] IN
        /\ inflight' = [inflight EXCEPT ![r] = @ \ {i}]
        /\ outcomes' = [outcomes EXCEPT
                          ![r] = Append(@, [step_index |-> i, status |-> "ok"])]
        /\ browser' = [q \in Runs |->
                          CASE q = r /\ st.op = "launch"         -> "open"
                            [] q \in Closes(r) /\ st.op = "close" -> "closed"
                            [] OTHER                             -> browser[q]]
        /\ page' = [page EXCEPT ![r] = IF st.op = "new_page" THEN TRUE ELSE @]
        /\ state' = [state EXCEPT
                          ![r] = IF st.op = "new_page" THEN "Running" ELSE @]
        /\ artifacts' = [artifacts EXCEPT
                          ![r] = IF st.op = "screenshot" THEN Append(@, st.arg)
                                 ELSE @]
        /\ pc' = [pc EXCEPT ![r] = NextStmt(script[r], i)]
        /\ files' = IF st.op = "screenshot" THEN [files EXCEPT ![st.arg] = r]
                     ELSE files
        /\ UNCHANGED <<script, exc, escaped, playwright, launchCount,
                       closeCount, dispatched, log>>

\* Statement i of run r raises with condition f.
Fail(r, i, f) ==
    /\ outcomes' = [outcomes EXCEPT
                      ![r] = Append(@, [step_index |-> i, status |-> f])]
    /\ state' = [state EXCEPT ![r] = "Aborted"]
    /\ exc' = [exc EXCEPT ![r] = ~InTry(script[r], i)]
    /\ pc' = [pc EXCEPT ![r] = RaiseTarget(script[r], i)]

\* A call in flight raises.
Raise(r) ==
    \E i \in inflight[r] :
        \E f \in FailuresOf(Body(script[r])[i].op) :
            /\ inflight' = [inflight EXCEPT ![r] = @ \ {i}]
            /\ Fail(r, i, f)
            /\ UNCHANGED <<script, escaped, playwright, browser, page,
                           launchCount, closeCount, dispatched, artifacts, log, files>>

\* print(...); in the except clause the line names the exception caught,
\* which is the one the last ended statement raised.
LogLine(r) ==
    /\ AtStmt(r) /\ Stmt(r).op = "print"
    /\ log' = [log EXCEPT
                 ![r] = Append(@, [line  |-> Stmt(r).line,
                                   msg   |-> Stmt(r).arg,
                                   about |-> IF pc[r] = Handler(script[r])
                                             THEN Last(outcomes[r]).step_index
                                             ELSE 0])]
    /\ pc' = [pc EXCEPT ![r] = NextStmt(script[r], pc[r])]
    /\ UNCHANGED <<script, inflight, state, exc, escaped, playwright, browser,
                   page, launchCount, closeCount, dispatched, outcomes,
                   artifacts, files>>

\* time.sleep(0.5)
Sleep(r) ==
    /\ AtStmt(r) /\ Stmt(r).op = "sleep"
    /\ pc' = [pc EXCEPT ![r] = NextStmt(script[r], pc[r])]
    /\ UNCHANGED <<script, inflight, state, exc, escaped, playwright, browser,
                   page, launchCount, closeCount, dispatched, outcomes,
                   artifacts, log, files>>

\* with open("verification/dummy.html", "w") as f: f.write(html_content)
WriteFile(r) ==
    /\ AtStmt(r) /\ Stmt(r).op = "write_file"
    /\ outcomes' = [outcomes EXCEPT
                      ![r] = Append(@, [step_index |-> pc[r], status |-> "ok"])]
    /\ files' = [files EXCEPT ![Stmt(r).arg] = r]
    /\ pc' = [pc EXCEPT ![r] = NextStmt(script[r], pc[r])]
    /\ UNCHANGED <<script, inflight, state, exc, escaped, playwright, browser,
                   page, launchCount, closeCount, dispatched, artifacts, log>>

\* ... and the directory is missing or not writable.
WriteFileFails(r) ==
    /\ AtStmt(r) /\ Stmt(r).op = "write_file"
    /\ \E f \in FailuresOf("write_file") : Fail(r, pc[r], f)
    /\ UNCHANGED <<script, inflight, escaped, playwright, browser, page,
                   launchCount, closeCount, dispatched, artifacts, log, files>>

\* Control leaves the with block, normally or by an exception: the context
\* manager stops Playwright, which ends a browser that was never closed, and
\* the function returns or the exception reaches the caller.
ExitWith(r) ==
    /\ pc[r] = ExitPc(script[r])
    /\ playwright' = [playwright EXCEPT ![r] = "stopped"]
    /\ browser' = [browser EXCEPT ![r] = IF @ = "open" THEN "killed" ELSE @]
    /\ state' = [state EXCEPT ![r] = IF @ = "Aborted" THEN @ ELSE "Completed"]
    /\ escaped' = [escaped EXCEPT ![r] = exc[r]]
    /\ pc' = [pc EXCEPT ![r] = DonePc(script[r])]
    /\ UNCHANGED <<script, inflight, exc, page, launchCount, closeCount,
                   dispatched, outcomes, artifacts, log, files>>

Next ==
    \E r \in Runs :
        \/ Enter(r)
        \/ Dispatch(r)
        \/ ReturnOk(r)
        \/ Raise(r)
        \/ LogLine(r)
        \/ Sleep(r)
        \/ WriteFile(r)
        \/ WriteFileFails(r)
        \/ ExitWith(r)

Spec == Init /\ [][Next]_vars

\* The scripts run to their end: each is a process that keeps executing, and
\* every Playwright call returns or raises within its timeout.
FairSpec == Spec /\ \A r \in Runs : WF_vars(Enter(r) \/ Dispatch(r) \/ ReturnOk(r)
                        \/ Raise(r) \/ LogLine(r) \/ Sleep(r) \/ WriteFile(r)
                        \/ WriteFileFails(r) \/ ExitWith(r))

Terminated(r) == pc[r] = DonePc(script[r])

TypeOK ==
    /\ script \in [Runs -> Scripts]
    /\ \A r \in Runs :
        /\ pc[r] \in 1..DonePc(script[r])
        /\ inflight[r] \subseteq 1..Len(Body(script[r]))
        /\ state[r] \in {"Pending", "Running", "Completed", "Aborted"}
        /\ exc[r] \in BOOLEAN /\ escaped[r] \in BOOLEAN /\ page[r] \in BOOLEAN
        /\ playwright[r] \in {"none", "started", "stopped"}
        /\ browser[r] \in {"none", "open", "closed", "killed"}
        /\ launchCount[r] \in Nat /\ closeCount[r] \in Nat
    /\ files \in [Paths -> Runs \cup {"none"}]

-----------------------------------------------------------------------------
(* Vocabulary of the properties.                                           *)

Indices(s) == 1..Len(Body(s))

\* the scenario steps of a function
Steps(s) == {i \in Indices(s) : Body(s)[i].op \in StepOps}

\* steps that drive the page (everything but waits, assertions and captures)
DriveOps == {"navigate", "click", "fill", "check", "hover"}

Range(q) == {q[k] : k \in 1..Len(q)}

IsPrefix(p, q) == Len(p) <= Len(q) /\ \A k \in 1..Len(p) : p[k] = q[k]

StrictlyIncreasing(q) == \A j, k \in 1..Len(q) : j < k => q[j] < q[k]

\* indices of the statements of run r that ended with status f
EndedWith(r, f) == {o.step_index : o \in {x \in Range(outcomes[r]) : x.status = f}}

FailedIdx(r) == EndedWith(r, "not_found") \cup EndedWith(r, "timeout")
                    \cup EndedWith(r, "error")

\* number of outcomes recorded for statement i
TimesEnded(r, i) == Cardinality({k \in 1..Len(outcomes[r]) :
                                    outcomes[r][k].step_index = i})

OpOf(r, i) == Body(script[r])[i].op

-----------------------------------------------------------------------------
\* C1: once the session (browser and page) is open, browser.close is called
\* exactly once before the run ends: never twice, and not zero times when a
\* step raises.
C1_CloseExactlyOnce ==
    \A r \in Runs :
        /\ closeCount[r] <= 1
        /\ (Terminated(r) /\ page[r]) => closeCount[r] = 1

\* C2: a run goes from Running to Aborted exactly when a step ends with
\* not_found, timeout or error and its failure policy is abort; outcomes
\* recorded so far are kept; and after the abort no navigate, click, fill,
\* check or hover statement with a larger index is dispatched.
C2_AbortExactlyOnFailure ==
    /\ [][\A r \in Runs :
            (state[r] = "Running" /\ state'[r] = "Aborted")
              <=> /\ state[r] = "Running"
                  /\ Len(outcomes'[r]) = Len(outcomes[r]) + 1
                  /\ Last(outcomes'[r]).status \in Failure
                  /\ OnFailure(script[r], Last(outcomes'[r]).step_index) = "abort"]_vars
    /\ [][\A r \in Runs : IsPrefix(outcomes[r], outcomes'[r])]_vars
    /\ [](\A r \in Runs : \A i \in FailedIdx(r) : \A j \in Range(dispatched[r]) :
            j > i => OpOf(r, j) \notin DriveOps)

\* a verify_ui run whose hover failed has printed the error, closed the
\* browser and ended, with the earlier outcomes still recorded
C2_Witness ==
    \E r \in Runs :
        /\ Terminated(r) /\ state[r] = "Aborted" /\ script[r] = "verify_ui"
        /\ FailedIdx(r) = {9}
        /\ Len(outcomes[r]) = 7
        /\ Last(dispatched[r]) = 18

\* the screenshot statements of run r placed after statement i
CapturesAfter(r, i) == {j \in Indices(script[r]) : j > i /\ OpOf(r, j) = "screenshot"}

C4_TimeoutDoesNotEscape ==
    \A r \in Runs : \A i \in EndedWith(r, "timeout") :
        (Terminated(r) /\ OpOf(r, i) = "wait" /\ FailedIdx(r) = {i})
            => /\ ~escaped[r]
               /\ state[r] \in {"Completed", "Aborted"}

C6_OneStepAtATime ==
    \A r \in Runs :
        /\ Cardinality(inflight[r]) <= 1
        /\ StrictlyIncreasing(dispatched[r])
        /\ StrictlyIncreasing([k \in 1..Len(outcomes[r]) |->
                                  outcomes[r][k].step_index])
        /\ \A k \in 1..Len(dispatched[r]) :
              k < Len(dispatched[r]) => TimesEnded(r, dispatched[r][k]) = 1
        /\ \A i \in inflight[r] : i = Last(dispatched[r]) /\ TimesEnded(r, i) = 0

\* verify_frontend waits for "#tab-profiles" after its click has returned
C6_Witness ==
    \E r \in Runs :
        /\ script[r] = "verify_frontend"
        /\ inflight[r] = {9}
        /\ TimesEnded(r, 8) = 1

C10_LaunchFailureIsFatal ==
    \A r \in Runs : \A i \in FailedIdx(r) :
        OpOf(r, i) = "launch"
            => /\ launchCount[r] = 1
               /\ dispatched[r] = <<i>>
               /\ outcomes[r] = <<[step_index |-> i, status |-> "error"]>>
               /\ artifacts[r] = << >>
               /\ closeCount[r] = 0
               /\ pc[r] \in {ExitPc(script[r]), DonePc(script[r])}
               /\ state[r] = "Aborted"
               /\ Terminated(r) => escaped[r]

\* a run whose launch failed has ended
C10_Witness ==
    \E r \in Runs :
        /\ Terminated(r)
        /\ \E i \in FailedIdx(r) : OpOf(r, i) = "launch"
        /\ browser[r] = "none"

\* number of times statement i of run r was dispatched
TimesDispatched(r, i) == Cardinality({k \in 1..Len(dispatched[r]) :
                                         dispatched[r][k] = i})

\* C11: nothing is retried: every statement's call is dispatched at most once
\* and ends at most once, and a statement that ended in timeout, not_found or
\* error is not in flight again.
C11_NoRetry ==
    \A r \in Runs :
        /\ \A i \in Range(dispatched[r]) : TimesDispatched(r, i) = 1
        /\ \A o \in Range(outcomes[r]) : TimesEnded(r, o.step_index) = 1
        /\ FailedIdx(r) \cap inflight[r] = {}

\* verify_ui ended after its tooltip wait ran out of time; the wait was
\* dispatched once
C11_Witness ==
    \E r \in Runs :
        /\ Terminated(r) /\ script[r] = "verify_ui"
        /\ EndedWith(r, "timeout") = {10}
        /\ TimesDispatched(r, 10) = 1

\* the outcomes of the scenario steps of run r (launch, new_page and close
\* left out), in the order recorded
StepOutcomes(r) ==
    LET IsStep(o) == o.step_index \in Steps(script[r])
    IN  SelectSeq(outcomes[r], IsStep)

Final(r) == state[r] \in {"Completed", "Aborted"}

\* C13: Completed and Aborted are final: a run in either state stays in it,
\* its step outcomes and its artifact list no longer change (outcomes are
\* appended while Running only, never removed or rewritten), and the function
\* body is never started again: control only moves forward, the browser is
\* launched at most once, and an ended run does nothing more.
C13_TerminalStatesFinal ==
    [][\A r \in Runs :
          /\ Final(r) => /\ state'[r] = state[r]
                         /\ artifacts'[r] = artifacts[r]
          /\ state[r] # "Running" => StepOutcomes(r)' = StepOutcomes(r)
          /\ IsPrefix(outcomes[r], outcomes'[r])
          /\ pc'[r] >= pc[r]
          /\ launchCount'[r] <= 1
          /\ Terminated(r) => /\ pc'[r] = pc[r]
                              /\ dispatched'[r] = dispatched[r]
                              /\ outcomes'[r] = outcomes[r]
                              /\ log'[r] = log[r]]_vars

\* verify_ui ended Aborted after its tooltip screenshot failed: the error was
\* printed and the browser closed while Aborted, the first screenshot stayed
C13_Witness ==
    \E r \in Runs :
        /\ Terminated(r) /\ state[r] = "Aborted" /\ script[r] = "verify_ui"
        /\ Len(artifacts[r]) = 1
        /\ Last(StepOutcomes(r)).step_index = 11
        /\ Len(log[r]) = 3
        /\ closeCount[r] = 1

\* run r has printed an Error line naming a step that failed
ErrorLogged(r) ==
    \E k \in 1..Len(log[r]) :
        log[r][k].msg = "Error" /\ log[r][k].about \in FailedIdx(r)

\* C14: on every run in which a step failed, a message naming the failed step
\* is printed before the session is torn down and the teardown follows it:
\* browser.close is not called before the message is out, and once the run
\* has ended the message has been printed and close has been called.
C14_MessageThenTeardown ==
    \A r \in Runs :
        FailedIdx(r) \cap Steps(script[r]) # {}
            => /\ closeCount[r] >= 1 => ErrorLogged(r)
               /\ Terminated(r) => ErrorLogged(r) /\ closeCount[r] = 1

\* the feng-shui flow of verify_frontend has run to its end: every step has
\* ended ok, the function returned, and the screenshots are listed in the
\* order their statements are declared
FengShuiDone(r) ==
    /\ state[r] = "Completed"
    /\ \A i \in Steps(script[r]) : TimesEnded(r, i) = 1 /\ i \notin FailedIdx(r)
    /\ artifacts[r] = << Body(script[r])[19].arg, Body(script[r])[26].arg >>

\* C15: a verify_frontend run (fill 2024, fill 180, check the quantum option,
\* run, wait for QUANTUM FENG SHUI ANALYSIS, screenshot) in which no statement
\* fails - every located element is there and every awaited condition shows
\* up in time - eventually reaches Completed with every step ok and a
\* non-empty artifact list in declaration order.
C15_FengShuiCompletes ==
    \A r \in Runs :
        [](FailedIdx(r) = {}) =>
            <>(script[r] = "verify_frontend" => FengShuiDone(r))

\* verify_frontend has returned with both screenshots written and the browser
\* closed
C15_Witness ==
    \E r \in Runs :
        /\ script[r] = "verify_frontend" /\ FengShuiDone(r)
        /\ artifacts[r][1] = "/home/jules/verification/feng_shui_dashboard.png"
        /\ TimesEnded(r, 18) = 1
        /\ browser[r] = "closed"

\* what run r owns: its position, session, counters and Run Result
Own(r) == <<script[r], pc[r], inflight[r], state[r], exc[r], escaped[r],
            playwright[r], browser[r], page[r], launchCount[r], closeCount[r],
            dispatched[r], outcomes[r], artifacts[r], log[r]>>

\* the ok screenshot statements of run r, in the order they ended
CapturedBy(r) ==
    LET IsCapture(o) == o.status = "ok" /\ OpOf(r, o.step_index) = "screenshot"
        caps == SelectSeq(outcomes[r], IsCapture)
    IN  [k \in 1..Len(caps) |-> Body(script[r])[caps[k].step_index].arg]

StepsBefore(r, j) == {i \in Steps(script[r]) : i < j}

\* the screenshot statements of run r whose file is in its artifact list
Written(r) == {j \in Steps(script[r]) :
                  /\ OpOf(r, j) = "screenshot"
                  /\ Body(script[r])[j].arg \in Range(artifacts[r])}

\* C17: in verify_frontend (fatum-mark2) and verify_visual_editor a screenshot
\* is written only if every navigation, click, fill, check, wait and assertion
\* before it succeeded; the first failing step ends the run, so no step after
\* it is dispatched and no screenshot placed after it is written; and the
\* divination screenshot is written only after the feng-shui screenshot.
C17_CaptureOnlyAfterSuccess ==
    \A r \in Runs :
        script[r] \in {"verify_frontend", "verify_visual_editor"}
            => /\ \A j \in Written(r) : \A i \in StepsBefore(r, j) :
                      TimesEnded(r, i) = 1 /\ i \notin FailedIdx(r)
               /\ \A i \in FailedIdx(r) :
                      /\ \A j \in Range(dispatched[r]) : j <= i
                      /\ \A j \in Written(r) : j < i
                      /\ pc[r] \in {ExitPc(script[r]), DonePc(script[r])}
               /\ (script[r] = "verify_frontend" /\ 26 \in Written(r))
                      => artifacts[r] = << Body(script[r])[19].arg,
                                           Body(script[r])[26].arg >>

\* verify_frontend ended when clicking the divination tab failed: the
\* feng-shui screenshot is written, the divination screenshot is not
C17_Witness ==
    \E r \in Runs :
        /\ Terminated(r) /\ script[r] = "verify_frontend"
        /\ FailedIdx(r) = {22}
        /\ Written(r) = {19}
        /\ escaped[r]

\* the lines of run r's log with message m
Logged(r, m) == {k \in 1..Len(log[r]) : log[r][k].msg = m}

\* C18: in verify_ui, once the page exists, whichever step fails (navigate,
\* wait for .nav-group, hover, tooltip wait, click, a screenshot) the function
\* returns normally: the failure yields one Error line naming that step, the
\* steps after it are skipped, and "Verification Complete." is logged exactly
\* when the three screenshots were written, in the order 1_nav_restructure,
\* 2_tooltip, 3_sidebar_details.  (browser.close raising in the finally
\* clause is not one of the steps: such runs are left out of "returns".)
C18_VerifyUiReturns ==
    \A r \in Runs :
        (script[r] = "verify_ui" /\ page[r])
            => LET failed == FailedIdx(r) \cap Steps(script[r])
                   all3   == << Body(script[r])[7].arg, Body(script[r])[11].arg,
                                Body(script[r])[15].arg >>
               IN
               /\ \A i \in failed :
                     /\ failed = {i}
                     /\ \A j \in Range(dispatched[r]) :
                           j > i => OpOf(r, j) = "close"
                     /\ Logged(r, "Verification Complete.") = {}
               /\ \A k \in Logged(r, "Error") : log[r][k].about \in failed
               /\ Cardinality(Logged(r, "Error")) <= 1
               /\ Logged(r, "Verification Complete.") # {} => artifacts[r] = all3
               /\ Terminated(r) =>
                     /\ Finally(script[r]) \notin FailedIdx(r) => ~escaped[r]
                     /\ closeCount[r] = 1
                     /\ (Logged(r, "Error") # {}) <=> (failed # {})
                     /\ (Logged(r, "Verification Complete.") # {})
                            <=> (artifacts[r] = all3)

\* verify_ui returned normally after its last screenshot failed: two
\* screenshots written, the Error line printed, no "Verification Complete."
C18_Witness ==
    \E r \in Runs :
        /\ Terminated(r) /\ script[r] = "verify_ui" /\ ~escaped[r]
        /\ FailedIdx(r) = {15}
        /\ Len(artifacts[r]) = 2
        /\ Logged(r, "Error") # {}
        /\ Logged(r, "Verification Complete.") = {}

=============================================================================
